---- MODULE Spec2Model ----
(***************************************************************************)
(* Contact form worker (src/unnamed/part_000): one HTTP request is routed, *)
(* its JSON body parsed and validated, an email is relayed through the     *)
(* provider's HTTP API, and the outcome is mapped to a response.           *)
(*                                                                         *)
(* A JavaScript value is a record [t, s, n]: t is its typeof-like tag, s   *)
(* the characters of a string (a sequence of one-character strings), n the *)
(* value of a number or boolean (1 = true).                                *)
(***************************************************************************)
EXTENDS Integers, Sequences, FiniteSets, TLC

VARIABLES pc, request, env, body, validation, outbound, upstream, response

vars == <<pc, request, env, body, validation, outbound, upstream, response>>

----------------------------------------------------------------------------
(* Bounds of the model *)

\* longest string enumerated character by character (email addresses)
MaxStrLen == 6
\* longest run of digits tried as a mobile number
MaxMobileLen == 17
\* how far past a length limit the long strings go
MaxOver == 2
\* longest string of markup characters enumerated
MaxMarkupLen == 3

(* Limits of validateInput *)
MobileMinLen == 7
MobileMaxLen == 15
NameMaxLen == 100
SubjectMaxLen == 200
MessageMaxLen == 1000

----------------------------------------------------------------------------
(* JavaScript values *)

Undefined == [t |-> "undefined", s |-> <<>>, n |-> 0]
Null == [t |-> "null", s |-> <<>>, n |-> 0]
Object == [t |-> "object", s |-> <<>>, n |-> 0]
Str(chars) == [t |-> "string", s |-> chars, n |-> 0]
Num(k) == [t |-> "number", s |-> <<>>, n |-> k]
Bool(b) == [t |-> "boolean", s |-> <<>>, n |-> IF b THEN 1 ELSE 0]

\* ToBoolean: what `!x`, `x && ...`, `x ? :` and `x || ...` test
Truthy(v) ==
  CASE v.t = "undefined" -> FALSE
    [] v.t = "null" -> FALSE
    [] v.t = "boolean" -> v.n = 1
    [] v.t = "number" -> v.n # 0
    [] v.t = "string" -> Len(v.s) > 0
    [] OTHER -> TRUE

Rep(c, k) == [i \in 1..k |-> c]

DigitChars == <<"0", "1", "2", "3", "4", "5", "6", "7", "8", "9">>

RECURSIVE Decimal(_)
Decimal(k) ==
  IF k < 10 THEN <<DigitChars[k + 1]>>
  ELSE Decimal(k \div 10) \o <<DigitChars[(k % 10) + 1]>>

\* String(v), for the values the model draws (numbers are naturals)
StringOf(v) ==
  CASE v.t = "string" -> v.s
    [] v.t = "number" -> Decimal(v.n)
    [] v.t = "boolean" -> IF v.n = 1 THEN <<"t", "r", "u", "e">>
                          ELSE <<"f", "a", "l", "s", "e">>
    [] v.t = "undefined" -> <<"u", "n", "d", "e", "f", "i", "n", "e", "d">>
    [] v.t = "null" -> <<"n", "u", "l", "l">>
    [] OTHER -> <<"[", "o", "b", "j", "e", "c", "t", " ", "O", "b", "j", "e", "c", "t", "]">>

----------------------------------------------------------------------------
(* String helpers used by validateInput *)

\* the characters \s matches and trim() strips
WhiteSpace == {" ", "\t", "\n"}
Digit == {DigitChars[i] : i \in 1..10}

\* String.prototype.trim
Trim(s) ==
  IF \A i \in 1..Len(s) : s[i] \in WhiteSpace THEN <<>>
  ELSE LET first == CHOOSE i \in 1..Len(s) :
                      /\ s[i] \notin WhiteSpace
                      /\ \A j \in 1..(i - 1) : s[j] \in WhiteSpace
           last == CHOOSE i \in 1..Len(s) :
                      /\ s[i] \notin WhiteSpace
                      /\ \A j \in (i + 1)..Len(s) : s[j] \in WhiteSpace
       IN SubSeq(s, first, last)

\* [^\s@]+ on s[from..to]
NoSpaceNoAt(s, from, to) ==
  /\ from <= to
  /\ \A k \in from..to : s[k] \notin WhiteSpace /\ s[k] # "@"

\* a pattern that forgets the dot: /^[^\s@]+@[^\s@]+$/
EmailRegexTestNoDot(s) ==
  \E i \in 1..Len(s) :
    /\ s[i] = "@"
    /\ NoSpaceNoAt(s, 1, i - 1)
    /\ NoSpaceNoAt(s, i + 1, Len(s))

\* /^[^\s@]+@[^\s@]+\.[^\s@]+$/.test(s)
EmailRegexTest(s) ==
  \E i \in 1..Len(s) : \E j \in 1..Len(s) :
    /\ s[i] = "@"
    /\ s[j] = "."
    /\ NoSpaceNoAt(s, 1, i - 1)
    /\ NoSpaceNoAt(s, i + 1, j - 1)
    /\ NoSpaceNoAt(s, j + 1, Len(s))

\* /^\d+$/.test(s)
DigitsRegexTest(s) == Len(s) > 0 /\ \A i \in 1..Len(s) : s[i] \in Digit

----------------------------------------------------------------------------
(* Request bodies: the value request.json() yields.  A body is a JavaScript *)
(* value that, when an object, carries the five fields of a submission.     *)

NoFields == [name |-> Undefined, email |-> Undefined, mobile |-> Undefined,
             subject |-> Undefined, message |-> Undefined]

Plain(v) == [t |-> v.t, s |-> v.s, n |-> v.n] @@ NoFields

Obj(nm, em, mo, su, ms) ==
  [t |-> "object", s |-> <<>>, n |-> 0,
   name |-> nm, email |-> em, mobile |-> mo, subject |-> su, message |-> ms]

\* typeof x
TypeOf(v) == IF v.t = "null" THEN "object" ELSE v.t

\* x.length of a truthy value: -1 stands for undefined, which compares false
LengthOf(v) == IF v.t = "string" THEN Len(v.s) ELSE -1

----------------------------------------------------------------------------
(* validateInput *)

NoMessage == "undefined"
Invalid(msg) == [isValid |-> FALSE, message |-> msg]
Valid == [isValid |-> TRUE, message |-> NoMessage]

\* a presence test that forgets to trim
MissingNoTrim(v) ==
  \/ ~Truthy(v)
  \/ TypeOf(v) # "string"

\* `!x || typeof x !== 'string' || x.trim().length === 0`
Missing(v) ==
  \/ ~Truthy(v)
  \/ TypeOf(v) # "string"
  \/ Len(Trim(v.s)) = 0

\* the mobile rule: `mobile !== undefined && mobile !== null && mobile !== ''`
\* guards the test of String(mobile).trim()
MobileProvided(v) ==
  /\ v.t # "undefined"
  /\ v.t # "null"
  /\ ~(v.t = "string" /\ v.s = <<>>)

\* a mobile test without the upper length limit
MobileBadNoUpperLimit(v) ==
  LET mobileStr == Trim(StringOf(v))
  IN \/ ~DigitsRegexTest(mobileStr)
     \/ Len(mobileStr) < MobileMinLen

MobileBad(v) ==
  LET mobileStr == Trim(StringOf(v))
  IN \/ ~DigitsRegexTest(mobileStr)
     \/ Len(mobileStr) < MobileMinLen
     \/ Len(mobileStr) > MobileMaxLen

\* an off-by-one length test
ExceedsLimitInclusive(len, limit) == len >= limit

\* `x.length > limit`
ExceedsLimit(len, limit) == len > limit

\* a validator that tests the lengths before the formats
validateInputLengthsFirst(data) ==
  IF ~Truthy(data) \/ TypeOf(data) # "object"
    THEN Invalid("Invalid request body")
  ELSE IF Missing(data.name) THEN Invalid("Name is required")
  ELSE IF Missing(data.email) THEN Invalid("Email is required")
  ELSE IF Missing(data.message) THEN Invalid("Message is required")
  ELSE IF ExceedsLimit(Len(Trim(data.name.s)), NameMaxLen)
    THEN Invalid("Name must be less than 100 characters")
  ELSE IF Truthy(data.subject) /\ ExceedsLimit(LengthOf(data.subject), SubjectMaxLen)
    THEN Invalid("Subject must be less than 200 characters")
  ELSE IF ExceedsLimit(Len(Trim(data.message.s)), MessageMaxLen)
    THEN Invalid("Message must be less than 1000 characters")
  ELSE IF ~EmailRegexTest(Trim(data.email.s))
    THEN Invalid("Please provide a valid email address")
  ELSE IF MobileProvided(data.mobile) /\ MobileBad(data.mobile)
    THEN Invalid("Mobile number must be valid")
  ELSE Valid

validateInput(data) ==
  IF ~Truthy(data) \/ TypeOf(data) # "object"
    THEN Invalid("Invalid request body")
  ELSE IF Missing(data.name) THEN Invalid("Name is required")
  ELSE IF Missing(data.email) THEN Invalid("Email is required")
  ELSE IF Missing(data.message) THEN Invalid("Message is required")
  ELSE IF ~EmailRegexTest(Trim(data.email.s))
    THEN Invalid("Please provide a valid email address")
  ELSE IF MobileProvided(data.mobile) /\ MobileBad(data.mobile)
    THEN Invalid("Mobile number must be valid")
  ELSE IF ExceedsLimit(Len(Trim(data.name.s)), NameMaxLen)
    THEN Invalid("Name must be less than 100 characters")
  ELSE IF Truthy(data.subject) /\ ExceedsLimit(LengthOf(data.subject), SubjectMaxLen)
    THEN Invalid("Subject must be less than 200 characters")
  ELSE IF ExceedsLimit(Len(Trim(data.message.s)), MessageMaxLen)
    THEN Invalid("Message must be less than 1000 characters")
  ELSE Valid

----------------------------------------------------------------------------
(* Responses *)

NoBody == [present |-> FALSE, status |-> "", message |-> ""]
JsonBody(st, msg) == [present |-> TRUE, status |-> st, message |-> msg]

getCORSHeaders ==
  [h \in {"Access-Control-Allow-Origin", "Access-Control-Allow-Methods",
          "Access-Control-Allow-Headers", "Access-Control-Max-Age"} |->
     CASE h = "Access-Control-Allow-Origin" -> "*"
       [] h = "Access-Control-Allow-Methods" -> "POST, OPTIONS"
       [] h = "Access-Control-Allow-Headers" -> "Content-Type"
       [] OTHER -> "86400"]

\* { 'Content-Type': 'application/json', ...getCORSHeaders() }
JsonHeaders == getCORSHeaders @@ ("Content-Type" :> "application/json")

\* an error response built without the CORS headers
createErrorResponseNoCORS(message, status) ==
  [status |-> status, headers |-> ("Content-Type" :> "application/json"),
   body |-> JsonBody("error", message)]

createErrorResponse(message, status) ==
  [status |-> status, headers |-> JsonHeaders, body |-> JsonBody("error", message)]

handleCORS == [status |-> 200, headers |-> getCORSHeaders, body |-> NoBody]

SuccessResponse ==
  [status |-> 200, headers |-> JsonHeaders,
   body |-> JsonBody("success", "Your inquiry has been sent.")]

SendFailedResponse ==
  createErrorResponse("Unable to send your inquiry. Please try again later.", 500)

\* `validation.message || 'Validation failed'`
ValidationResponse(v) ==
  createErrorResponse(IF v.message = NoMessage THEN "Validation failed" ELSE v.message, 400)

----------------------------------------------------------------------------
(* sendEmail, up to its call of fetch *)

\* text.replace(/c/g, rep) for a one-character pattern c
RECURSIVE ReplaceAll(_, _, _)
ReplaceAll(s, c, rep) ==
  IF Len(s) = 0 THEN <<>>
  ELSE IF Len(s) = 1 THEN (IF s[1] = c THEN rep ELSE s)
  ELSE LET m == Len(s) \div 2
       IN ReplaceAll(SubSeq(s, 1, m), c, rep) \o ReplaceAll(SubSeq(s, m + 1, Len(s)), c, rep)

\* an escape that replaces the ampersand last, and so escapes its own entities
escapeHtmlAmpersandLast(text) ==
  LET a == ReplaceAll(text, "<", <<"&", "l", "t", ";">>)
      b == ReplaceAll(a, ">", <<"&", "g", "t", ";">>)
      c == ReplaceAll(b, "\"", <<"&", "q", "u", "o", "t", ";">>)
      d == ReplaceAll(c, "'", <<"&", "#", "0", "3", "9", ";">>)
  IN ReplaceAll(d, "&", <<"&", "a", "m", "p", ";">>)

escapeHtml(text) ==
  LET a == ReplaceAll(text, "&", <<"&", "a", "m", "p", ";">>)
      b == ReplaceAll(a, "<", <<"&", "l", "t", ";">>)
      c == ReplaceAll(b, ">", <<"&", "g", "t", ";">>)
      d == ReplaceAll(c, "\"", <<"&", "q", "u", "o", "t", ";">>)
  IN ReplaceAll(d, "'", <<"&", "#", "0", "3", "9", ";">>)

NewInquiry == <<"N", "e", "w", " ", "I", "n", "q", "u", "i", "r", "y">>
NoSubjectProvided ==
  <<"N", "o", " ", "s", "u", "b", "j", "e", "c", "t", " ",
    "p", "r", "o", "v", "i", "d", "e", "d">>

\* escapeHtml(x) calls x.replace: a TypeError unless x is a string
EscapeThrows(contactData) ==
  \/ Truthy(contactData.mobile) /\ contactData.mobile.t # "string"
  \/ Truthy(contactData.subject) /\ contactData.subject.t # "string"

\* the values that fill the slots of the subject line and of the two templates
EmailPayload(contactData) ==
  [subject |-> IF Truthy(contactData.subject) THEN StringOf(contactData.subject)
               ELSE NewInquiry,
   html |->
     [name |-> escapeHtml(contactData.name.s),
      email |-> escapeHtml(contactData.email.s),
      mobile |-> IF Truthy(contactData.mobile) THEN escapeHtml(contactData.mobile.s)
                 ELSE <<>>,
      subject |-> IF Truthy(contactData.subject) THEN escapeHtml(contactData.subject.s)
                  ELSE NoSubjectProvided,
      message |-> ReplaceAll(escapeHtml(contactData.message.s), "\n",
                             <<"<", "b", "r", ">">>)],
   text |->
     [name |-> contactData.name.s,
      email |-> contactData.email.s,
      mobile |-> IF Truthy(contactData.mobile) THEN StringOf(contactData.mobile)
                 ELSE <<>>,
      subject |-> IF Truthy(contactData.subject) THEN StringOf(contactData.subject)
                  ELSE NoSubjectProvided,
      message |-> contactData.message.s],
   reply_to |-> contactData.email.s]

\* how sendEmail proceeds before it awaits fetch:
\*   "missing_env"  the early `return { success: false }`
\*   "threw"        an exception before the request leaves, caught by its catch
\*   "fetch"        the request to the provider is issued
SendEmailStart(contactData, e) ==
  IF ~e.MAILTRAP_API_TOKEN \/ ~e.FROM_EMAIL \/ ~e.TO_EMAIL THEN "missing_env"
  ELSE IF EscapeThrows(contactData) THEN "threw"
  ELSE IF ~e.MAILTRAP_API_URL THEN "threw"
  ELSE "fetch"

----------------------------------------------------------------------------
(* Inputs *)

RECURSIVE StringsOver(_, _)
StringsOver(alphabet, k) ==
  IF k = 0 THEN {<<>>}
  ELSE LET shorter == StringsOver(alphabet, k - 1)
       IN shorter \cup {Append(s, c) : s \in {x \in shorter : Len(x) = k - 1}, c \in alphabet}

GoodName == Str(<<"J", "o">>)
GoodEmail == Str(<<"j", "@", "x", ".", "c">>)
GoodMessage == Str(<<"H", "i">>)
GoodMobile == Str(Rep("1", MobileMinLen))

\* strings around a length limit: limit - 1 .. limit + MaxOver characters, and the
\* same with a blank appended or prepended
Around(limit) ==
  LET lens == (limit - 1)..(limit + MaxOver)
  IN {Str(Rep("a", k)) : k \in lens}
       \cup {Str(Append(Rep("a", k), " ")) : k \in lens}
       \cup {Str(<<" ">> \o Rep("a", k)) : k \in lens}

OddValues == {Undefined, Null, Num(0), Num(5), Bool(TRUE), Bool(FALSE), Object,
              Str(<<>>), Str(<<" ">>), Str(<<" ", "\t", "\n">>)}

NameValues == OddValues \cup Around(NameMaxLen) \cup {GoodName, Str(<<" ", "J", "o", " ">>)}

EmailValues ==
  OddValues \cup {Str(s) : s \in StringsOver({"a", "@", ".", " "}, MaxStrLen)}
    \cup {GoodEmail, Str(<<"j", "@", "x", ".", "c", "\n">>), Str(<<"j", "\t", "@", "x", ".", "c">>)}

MobileValues ==
  OddValues \cup {Str(Rep("1", k)) : k \in 0..MaxMobileLen}
    \cup {Str(<<" ">> \o Rep("2", k)) : k \in (MobileMinLen - 1)..MobileMinLen}
    \cup {Str(Append(Rep("3", k), " ")) : k \in MobileMaxLen..(MobileMaxLen + 1)}
    \cup {Str(Append(Rep("4", MobileMinLen - 1), c)) : c \in {"a", "+", "-", ".", " "}}
    \cup {Str(<<"+">> \o Rep("5", MobileMinLen))}
    \cup {Num(123456), Num(1234567), Num(12345678)}

SubjectValues ==
  OddValues \cup Around(SubjectMaxLen) \cup {Str(<<"H", "e", "l", "l", "o">>)}

MessageValues ==
  OddValues \cup Around(MessageMaxLen) \cup {GoodMessage, Str(<<"a", "\n", "b">>)}

\* every combination of a missing, a good and a rule-breaking value of each field
CoreBodies ==
  {Obj(nm, em, mo, su, ms) :
     nm \in {Undefined, GoodName, Str(Rep("a", NameMaxLen + 1))},
     em \in {Undefined, GoodEmail, Str(<<"j", "@", "x">>)},
     mo \in {Undefined, GoodMobile, Str(<<"1", "2", "3">>)},
     su \in {Undefined, Str(<<"H", "i">>), Str(Rep("a", SubjectMaxLen + 1))},
     ms \in {Undefined, GoodMessage, Str(Rep("a", MessageMaxLen + 1))}}

\* one field ranging over all its values, the others good
FieldBodies ==
  {Obj(nm, GoodEmail, Undefined, Undefined, GoodMessage) : nm \in NameValues}
    \cup {Obj(GoodName, em, Undefined, Undefined, GoodMessage) : em \in EmailValues}
    \cup {Obj(GoodName, GoodEmail, mo, Undefined, GoodMessage) : mo \in MobileValues}
    \cup {Obj(GoodName, GoodEmail, Undefined, su, GoodMessage) : su \in SubjectValues}
    \cup {Obj(GoodName, GoodEmail, Undefined, Undefined, ms) : ms \in MessageValues}

NonObjectBodies ==
  {Plain(v) : v \in {Null, Num(0), Num(5), Bool(TRUE), Bool(FALSE),
                     Str(<<>>), Str(<<"a">>)}}

\* strings of the characters escapeHtml replaces, of a letter and of a newline
MarkupStrings ==
  {s \in StringsOver({"a", "&", "<", ">", "\"", "'", "\n"}, MaxMarkupLen) : Len(s) > 0}

\* one field holding markup, the others good; and all of them holding it
MarkupBodies ==
  {Obj(Str(s), GoodEmail, Undefined, Undefined, GoodMessage) : s \in MarkupStrings}
    \cup {Obj(GoodName, Str(s \o <<"@", "x", ".", "c">>), Undefined, Undefined, GoodMessage) :
            s \in MarkupStrings}
    \cup {Obj(GoodName, GoodEmail, Undefined, Str(s), GoodMessage) : s \in MarkupStrings}
    \cup {Obj(GoodName, GoodEmail, Undefined, Undefined, Str(s)) : s \in MarkupStrings}
    \cup {Obj(Str(s), Str(s \o <<"@", "<", ".", ">">>), GoodMobile, Str(s), Str(s)) :
            s \in MarkupStrings}

Bodies == CoreBodies \cup FieldBodies \cup NonObjectBodies \cup MarkupBodies

NotParsed == Plain(Undefined)

\* the request's text either parses to a body or makes request.json() throw
Payloads ==
  {[parses |-> TRUE, json |-> b] : b \in Bodies}
    \cup {[parses |-> FALSE, json |-> NotParsed]}

RoutingPayloads ==
  {[parses |-> TRUE, json |-> b] : b \in CoreBodies \cup NonObjectBodies}
    \cup {[parses |-> FALSE, json |-> NotParsed]}

Methods == {"OPTIONS", "POST", "GET", "PUT", "DELETE", "HEAD"}
Paths == {"/contact", "/", "/contact/", "/api/contact"}

Requests ==
  {[method |-> "POST", path |-> "/contact", payload |-> p] : p \in Payloads}
    \cup {[method |-> m, path |-> u, payload |-> p] :
            m \in Methods, u \in Paths, p \in RoutingPayloads}

\* each setting is configured (a non-empty string) or not
Envs ==
  [MAILTRAP_API_TOKEN : BOOLEAN, FROM_EMAIL : BOOLEAN,
   TO_EMAIL : BOOLEAN, MAILTRAP_API_URL : BOOLEAN]

FullEnv == [MAILTRAP_API_TOKEN |-> TRUE, FROM_EMAIL |-> TRUE,
            TO_EMAIL |-> TRUE, MAILTRAP_API_URL |-> TRUE]

----------------------------------------------------------------------------
(* State *)

NoRequest == [method |-> "", path |-> "", payload |-> [parses |-> FALSE, json |-> NotParsed]]
NoResponse == [status |-> 0, headers |-> <<>>, body |-> NoBody]
NotRun == [isValid |-> FALSE, message |-> "not run"]

Init ==
  /\ pc = "idle"
  /\ request = NoRequest
  /\ env = FullEnv
  /\ body = NotParsed
  /\ validation = NotRun
  /\ outbound = <<>>
  /\ upstream = "none"
  /\ response = NoResponse

\* the runtime calls fetch(request, env, ctx)
Receive ==
  /\ pc = "idle"
  /\ \E r \in Requests, e \in Envs :
       /\ request' = r
       /\ env' = e
  /\ pc' = "route"
  /\ UNCHANGED <<body, validation, outbound, upstream, response>>

Return(r) == response' = r /\ pc' = "done"

\* a router that looks at the path before the method
RoutePathFirst ==
  /\ pc = "route"
  /\ IF request.method = "OPTIONS" THEN Return(handleCORS)
     ELSE IF request.path # "/contact"
       THEN Return(createErrorResponse("Endpoint not found", 404))
     ELSE IF request.method # "POST"
       THEN Return(createErrorResponse("Method not allowed", 405))
     ELSE pc' = "json" /\ UNCHANGED response
  /\ UNCHANGED <<request, env, body, validation, outbound, upstream>>

\* handleRequest, to its first await
Route ==
  /\ pc = "route"
  /\ IF request.method = "OPTIONS" THEN Return(handleCORS)
     ELSE IF request.method # "POST"
       THEN Return(createErrorResponse("Method not allowed", 405))
     ELSE IF request.path # "/contact"
       THEN Return(createErrorResponse("Endpoint not found", 404))
     ELSE pc' = "json" /\ UNCHANGED response
  /\ UNCHANGED <<request, env, body, validation, outbound, upstream>>

\* `await request.json()`: the body, or an exception caught by handleRequest
ParseJson ==
  /\ pc = "json"
  /\ IF request.payload.parses
       THEN body' = request.payload.json /\ pc' = "validate" /\ UNCHANGED response
       ELSE Return(SendFailedResponse) /\ UNCHANGED body
  /\ UNCHANGED <<request, env, validation, outbound, upstream>>

Validate ==
  /\ pc = "validate"
  /\ validation' = validateInput(body)
  /\ IF validation'.isValid
       THEN pc' = "send" /\ UNCHANGED response
       ELSE Return(ValidationResponse(validation'))
  /\ UNCHANGED <<request, env, body, outbound, upstream>>

\* sendEmail to its `await fetch(...)`
SendEmail ==
  /\ pc = "send"
  /\ LET start == SendEmailStart(body, env)
     IN IF start = "fetch"
          THEN /\ outbound' = Append(outbound, EmailPayload(body))
               /\ upstream' = "pending"
               /\ pc' = "fetch"
               /\ UNCHANGED response
          ELSE /\ Return(SendFailedResponse)
               /\ UNCHANGED <<outbound, upstream>>
  /\ UNCHANGED <<request, env, body, validation>>

\* the provider answers 2xx or not, or fetch rejects
FetchOutcomes == {"ok", "non2xx", "throw"}

\* a handler that never looks at response.ok
FetchSettlesIgnoresStatus ==
  /\ pc = "fetch"
  /\ \E o \in FetchOutcomes :
       /\ upstream' = o
       /\ CASE o = "throw" -> Return(SendFailedResponse)
            [] OTHER -> Return(SuccessResponse)
  /\ UNCHANGED <<request, env, body, validation, outbound>>

\* a handler that sends again when the call fails
FetchSettlesRetries ==
  /\ pc = "fetch"
  /\ \E o \in FetchOutcomes :
       /\ upstream' = o
       /\ CASE o = "ok" -> Return(SuccessResponse) /\ UNCHANGED outbound
            [] o = "non2xx" -> pc' = "text" /\ UNCHANGED <<response, outbound>>
            [] OTHER -> IF Len(outbound) < 2
                          THEN /\ outbound' = Append(outbound, EmailPayload(body))
                               /\ pc' = "fetch"
                               /\ UNCHANGED response
                          ELSE Return(SendFailedResponse) /\ UNCHANGED outbound
  /\ UNCHANGED <<request, env, body, validation>>

FetchSettles ==
  /\ pc = "fetch"
  /\ \E o \in FetchOutcomes :
       /\ upstream' = o
       /\ CASE o = "ok" -> Return(SuccessResponse)
            [] o = "non2xx" -> pc' = "text" /\ UNCHANGED response
            [] OTHER -> Return(SendFailedResponse)
  /\ UNCHANGED <<request, env, body, validation, outbound>>

\* `await response.text()` of a non-2xx answer: the text, or an exception
TextSettles ==
  /\ pc = "text"
  /\ Return(SendFailedResponse)
  /\ UNCHANGED <<request, env, body, validation, outbound, upstream>>

Next == Receive \/ Route \/ ParseJson \/ Validate \/ SendEmail \/ FetchSettles \/ TextSettles

Spec == Init /\ [][Next]_vars

----------------------------------------------------------------------------
(* Properties *)

SendFailedMessage == "Unable to send your inquiry. Please try again later."

Is(r, status, kind, message) ==
  /\ r.status = status
  /\ r.body = [present |-> TRUE, status |-> kind, message |-> message]

IsContactPost == request.method = "POST" /\ request.path = "/contact"

\* C1: a validated POST /contact whose provider call was answered 2xx is answered
\* 200 with the success envelope; one whose call was answered non-2xx, or threw,
\* is answered 500 with the generic failure envelope.
C1_SendOutcomeMapsToResponse ==
  (pc = "done" /\ IsContactPost /\ validation.isValid /\ Len(outbound) > 0) =>
     /\ upstream = "ok" =>
          Is(response, 200, "success", "Your inquiry has been sent.")
     /\ upstream \in {"non2xx", "throw"} =>
          Is(response, 500, "error", SendFailedMessage)

C1_Witness ==
  /\ pc = "done" /\ validation.isValid /\ Len(outbound) = 1
  /\ upstream = "non2xx"
  /\ response.status = 500

\* C2: a POST /contact whose body cannot be parsed as JSON is answered 400.
C2_UnparseableIs400 ==
  (pc = "done" /\ IsContactPost /\ ~request.payload.parses) => response.status = 400

\* The nine rules, each on its own: whether a body breaks rule i, whatever the
\* other rules say of it.
IsBlankOrNotString(v) ==
  \/ v.t # "string"
  \/ \A i \in 1..Len(v.s) : v.s[i] \in WhiteSpace

RuleViolated(i, data) ==
  CASE i = 1 -> data.t # "object"
    [] i = 2 -> IsBlankOrNotString(data.name)
    [] i = 3 -> IsBlankOrNotString(data.email)
    [] i = 4 -> IsBlankOrNotString(data.message)
    [] i = 5 -> data.email.t = "string" /\ ~EmailRegexTest(Trim(data.email.s))
    [] i = 6 -> MobileProvided(data.mobile) /\ MobileBad(data.mobile)
    [] i = 7 -> data.name.t = "string" /\ Len(Trim(data.name.s)) > 100
    [] i = 8 -> data.subject.t = "string" /\ Len(data.subject.s) > 200
    [] OTHER -> data.message.t = "string" /\ Len(Trim(data.message.s)) > 1000

RuleMessage ==
  <<"Invalid request body", "Name is required", "Email is required",
    "Message is required", "Please provide a valid email address",
    "Mobile number must be valid", "Name must be less than 100 characters",
    "Subject must be less than 200 characters",
    "Message must be less than 1000 characters">>

ViolatedRules(data) == {i \in 1..9 : RuleViolated(i, data)}

FirstViolated(data) ==
  CHOOSE i \in ViolatedRules(data) : \A j \in ViolatedRules(data) : i <= j

Validated == validation # NotRun

\* C3: when the parsed body breaks one or more rules, validateInput reports the
\* message of the first broken rule in the fixed order, and the response is 400
\* with that message.
C3_FirstViolatedRuleWins ==
  (Validated /\ ViolatedRules(body) # {}) =>
     /\ validation = [isValid |-> FALSE, message |-> RuleMessage[FirstViolated(body)]]
     /\ pc = "done"
     /\ Is(response, 400, "error", RuleMessage[FirstViolated(body)])

\* a body that breaks the email-format rule and two later rules
C3_Witness ==
  /\ Validated
  /\ ViolatedRules(body) = {5, 7, 9}
  /\ Is(response, 400, "error", "Please provide a valid email address")

RequiredMessage(data) ==
  IF IsBlankOrNotString(data.name) THEN "Name is required"
  ELSE IF IsBlankOrNotString(data.email) THEN "Email is required"
  ELSE "Message is required"

LacksRequiredField(data) ==
  /\ data.t = "object"
  /\ \/ IsBlankOrNotString(data.name)
     \/ IsBlankOrNotString(data.email)
     \/ IsBlankOrNotString(data.message)

\* C4: an object body whose name, email or message is absent, empty, blank or not
\* a string is answered 400 with the "... is required" message of the first such
\* field, and no call to the provider is made.
C4_RequiredFields ==
  (body # NotParsed /\ LacksRequiredField(body)) =>
     /\ outbound = <<>> /\ upstream = "none"
     /\ pc \in {"validate", "done"}
     /\ pc = "done" => Is(response, 400, "error", RequiredMessage(body))

\* a whitespace-only message, with name and email present
C4_Witness ==
  /\ pc = "done"
  /\ ~IsBlankOrNotString(body.name) /\ ~IsBlankOrNotString(body.email)
  /\ body.message.t = "string" /\ Len(body.message.s) > 1
  /\ IsBlankOrNotString(body.message)
  /\ Is(response, 400, "error", "Message is required")
  /\ outbound = <<>>

\* The pattern ^[^\s@]+@[^\s@]+\.[^\s@]+$ as an automaton: 0 start, 1 in the local
\* part, 2 after the @, 3 in the domain before a dot, 4 after a dot, 5 in the part
\* after a dot (accepting).
PatternStep(states, ch) ==
  LET plain == ch \notin {" ", "\t", "\n", "@"}
  IN {q \in 1..5 :
        \/ q = 1 /\ plain /\ states \cap {0, 1} # {}
        \/ q = 2 /\ ch = "@" /\ 1 \in states
        \/ q = 3 /\ plain /\ states \cap {2, 3} # {}
        \/ q = 4 /\ ch = "." /\ 3 \in states
        \/ q = 5 /\ plain /\ states \cap {4, 5} # {}}

RECURSIVE PatternStates(_, _)
PatternStates(s, k) ==
  IF k = 0 THEN {0} ELSE PatternStep(PatternStates(s, k - 1), s[k])

MatchesEmailPattern(s) == 5 \in PatternStates(s, Len(s))

RequiredPresent(data) ==
  /\ data.t = "object"
  /\ ~IsBlankOrNotString(data.name)
  /\ ~IsBlankOrNotString(data.email)
  /\ ~IsBlankOrNotString(data.message)

InvalidEmailResponse ==
  pc = "done" /\ Is(response, 400, "error", "Please provide a valid email address")

\* C5 as stated: with name, email and message present, an email that does not match
\* the pattern as submitted (surrounding whitespace included) is answered 400
\* "Please provide a valid email address".
C5_UntrimmedEmailRejected ==
  (pc = "done" /\ Validated /\ RequiredPresent(body)
     /\ ~MatchesEmailPattern(body.email.s)) =>
       Is(response, 400, "error", "Please provide a valid email address")

\* C5 amended: with name, email and message present, an email that, with leading and
\* trailing whitespace removed, does not match the pattern is answered 400 "Please
\* provide a valid email address".
C5_TrimmedEmailRejected ==
  (Validated /\ RequiredPresent(body) /\ ~MatchesEmailPattern(Trim(body.email.s))) =>
     InvalidEmailResponse

\* an address with a domain but nothing after a dot
C5_Witness ==
  /\ Validated /\ RequiredPresent(body)
  /\ body.email.s = <<"a", "@", "a", ".">>
  /\ InvalidEmailResponse

\* the mobile rule is read on a body that is valid without its mobile
OtherwiseValid(data) == validateInput([data EXCEPT !.mobile = Undefined]).isValid

InvalidMobileResponse ==
  pc = "done" /\ Is(response, 400, "error", "Mobile number must be valid")

AllDigits(s) ==
  \A i \in 1..Len(s) : s[i] \in {"0", "1", "2", "3", "4", "5", "6", "7", "8", "9"}

NotProvided(v) == v.t \in {"undefined", "null"} \/ (v.t = "string" /\ Len(v.s) = 0)

PassesEarlierRules(data) == ViolatedRules(data) \cap 1..6 = {}

LengthResponse(i) == pc = "done" /\ Is(response, 400, "error", RuleMessage[i])

LengthRules(nameLong, subjectLong, messageLong) ==
  /\ (nameLong /\ ~subjectLong /\ ~messageLong) => LengthResponse(7)
  /\ (~nameLong /\ subjectLong /\ ~messageLong) => LengthResponse(8)
  /\ (~nameLong /\ ~subjectLong /\ messageLong) => LengthResponse(9)
  /\ (~nameLong /\ ~subjectLong /\ ~messageLong) => validation.isValid

SubjectLong(data) == data.subject.t = "string" /\ Len(data.subject.s) > 200

\* C7 as stated: a name of more than 100, a subject of more than 200, a message of
\* more than 1000 characters each, on its own, is answered 400 with that field's
\* length message; shorter ones pass the length rules.
C7_LengthsAsSubmitted ==
  (pc = "done" /\ Validated /\ PassesEarlierRules(body)) =>
     LengthRules(Len(body.name.s) > 100, SubjectLong(body), Len(body.message.s) > 1000)

\* C7 amended: the name and the message are measured after their leading and
\* trailing whitespace is removed, the subject as submitted.
C7_LengthsAfterTrim ==
  (Validated /\ PassesEarlierRules(body)) =>
     LengthRules(Len(Trim(body.name.s)) > 100, SubjectLong(body),
                 Len(Trim(body.message.s)) > 1000)

\* a message of 1001 characters, on its own
C7_Witness ==
  /\ Validated /\ PassesEarlierRules(body)
  /\ Len(Trim(body.message.s)) = 1001
  /\ Len(body.name.s) <= 100 /\ ~SubjectLong(body)
  /\ LengthResponse(9)

Untouched ==
  /\ body = NotParsed
  /\ validation = NotRun
  /\ outbound = <<>>
  /\ upstream = "none"

\* C8: routing looks at the method, then at the path: OPTIONS is answered 200 on
\* any path, any other method than POST 405 "Method not allowed" on any path, POST
\* to another path than /contact 404 "Endpoint not found" whatever the body; in
\* none of these cases is the body parsed or validated or an email sent.
C8_RoutingByMethodThenPath ==
  (pc # "idle" /\ ~IsContactPost) =>
     /\ Untouched
     /\ pc \in {"route", "done"}
     /\ pc = "done" =>
          IF request.method = "OPTIONS" THEN response.status = 200
          ELSE IF request.method # "POST"
            THEN Is(response, 405, "error", "Method not allowed")
          ELSE Is(response, 404, "error", "Endpoint not found")

\* a GET of /contact, with a body that would pass validation
C8_Witness ==
  /\ pc = "done"
  /\ request.method = "GET" /\ request.path = "/contact"
  /\ request.payload.parses /\ validateInput(request.payload.json).isValid
  /\ Is(response, 405, "error", "Method not allowed")
  /\ Untouched

CORSNames ==
  {"Access-Control-Allow-Origin", "Access-Control-Allow-Methods",
   "Access-Control-Allow-Headers", "Access-Control-Max-Age"}

HasCORS(h) ==
  /\ CORSNames \subseteq DOMAIN h
  /\ h["Access-Control-Allow-Origin"] = "*"
  /\ h["Access-Control-Allow-Methods"] = "POST, OPTIONS"
  /\ h["Access-Control-Allow-Headers"] = "Content-Type"
  /\ h["Access-Control-Max-Age"] = "86400"

\* C9: every response carries exactly the four CORS headers; every response but
\* the OPTIONS one also carries Content-Type: application/json and a JSON body,
\* and the OPTIONS response has no body.
C9_HeadersOnEveryResponse ==
  pc = "done" =>
     /\ response.status \in {200, 400, 404, 405, 500}
     /\ HasCORS(response.headers)
     /\ IF request.method = "OPTIONS"
          THEN /\ DOMAIN response.headers = CORSNames
               /\ ~response.body.present
          ELSE /\ DOMAIN response.headers = CORSNames \cup {"Content-Type"}
               /\ response.headers["Content-Type"] = "application/json"
               /\ response.body.present

\* a validation failure carries the headers
C9_Witness ==
  /\ pc = "done"
  /\ response.status = 400
  /\ HasCORS(response.headers)
  /\ response.headers["Content-Type"] = "application/json"

\* C10: a request issues at most one call to the provider, only after it was
\* routed as POST /contact and its body passed validation, and it is answered only
\* once that call has completed or thrown.
C10_OneCallThenResponse ==
  /\ Len(outbound) <= 1
  /\ Len(outbound) = 1 =>
       /\ IsContactPost
       /\ validation.isValid
       /\ validateInput(request.payload.json).isValid
       /\ upstream # "none"
  /\ response # NoResponse => pc = "done" /\ upstream # "pending"
  /\ upstream = "pending" <=> pc = "fetch"

\* the call threw and the request was answered, with no second call
C10_Witness ==
  /\ pc = "done"
  /\ Len(outbound) = 1
  /\ upstream = "throw"
  /\ response.status = 500

\* Escaping read character by character: the entity of each of & < > " ', any
\* other character as it is; in the message a newline becomes <br>.
Entity(ch) ==
  CASE ch = "&" -> <<"&", "a", "m", "p", ";">>
    [] ch = "<" -> <<"&", "l", "t", ";">>
    [] ch = ">" -> <<"&", "g", "t", ";">>
    [] ch = "\"" -> <<"&", "q", "u", "o", "t", ";">>
    [] ch = "'" -> <<"&", "#", "0", "3", "9", ";">>
    [] OTHER -> <<ch>>

RECURSIVE Concat(_, _, _, _)
Concat(Piece(_), s, from, to) ==
  IF from > to THEN <<>>
  ELSE IF from = to THEN Piece(s[from])
  ELSE LET mid == (from + to) \div 2
       IN Concat(Piece, s, from, mid) \o Concat(Piece, s, mid + 1, to)

Escaped(s) == Concat(Entity, s, 1, Len(s))

BreakOrEntity(ch) == IF ch = "\n" THEN <<"<", "b", "r", ">">> ELSE Entity(ch)

EscapedWithBreaks(s) == Concat(BreakOrEntity, s, 1, Len(s))

NoRawMarkup(s) == \A i \in 1..Len(s) : s[i] \notin {"<", ">", "\"", "'"}

\* every < of s opens a <br> and every > closes one; no quote is left
OnlyBreakTags(s) ==
  \A i \in 1..Len(s) :
    /\ s[i] \notin {"\"", "'"}
    /\ s[i] = "<" => i + 3 <= Len(s) /\ SubSeq(s, i, i + 3) = <<"<", "b", "r", ">">>
    /\ s[i] = ">" => i > 3 /\ SubSeq(s, i - 3, i) = <<"<", "b", "r", ">">>

Provided(v) == v.t = "string" /\ Len(v.s) > 0

\* C11: in the email sent for a validated submission, the HTML body holds every
\* submitted field with each of & < > " ' replaced by its entity, so that no raw
\* < > " ' of a field reaches the HTML (the only tags in the message are the <br>
\* written for its newlines), and the plain-text body holds the fields unescaped.
C11_HtmlEscapedTextRaw ==
  \A k \in 1..Len(outbound) :
    LET html == outbound[k].html
        text == outbound[k].text
    IN /\ html.name = Escaped(body.name.s) /\ NoRawMarkup(html.name)
       /\ html.email = Escaped(body.email.s) /\ NoRawMarkup(html.email)
       /\ Provided(body.mobile) =>
            html.mobile = Escaped(body.mobile.s) /\ NoRawMarkup(html.mobile)
       /\ Provided(body.subject) =>
            html.subject = Escaped(body.subject.s) /\ NoRawMarkup(html.subject)
       /\ html.message = EscapedWithBreaks(body.message.s) /\ OnlyBreakTags(html.message)
       /\ text.name = body.name.s
       /\ text.email = body.email.s
       /\ Provided(body.mobile) => text.mobile = body.mobile.s
       /\ Provided(body.subject) => text.subject = body.subject.s
       /\ text.message = body.message.s

\* an email whose name, subject and message held & and <
C11_Witness ==
  /\ Len(outbound) = 1
  /\ body.name.s = <<"&", "<">>
  /\ body.subject.s = <<"&", "<">>
  /\ body.message.s = <<"&", "<">>
  /\ outbound[1].html.name = <<"&", "a", "m", "p", ";", "&", "l", "t", ";">>
  /\ outbound[1].text.name = <<"&", "<">>

====
